---- MODULE Spec2Model ----
(***************************************************************************)
(* Model of the Slideshow controller of src/scripts/slideshow.js.          *)
(*                                                                         *)
(* The browser is the environment: it settles image loads, runs timers in  *)
(* the order of their due times (never early, possibly late), runs the     *)
(* requestAnimationFrame callbacks of a frame together and in registration *)
(* order, moves the pointer and changes the page's visibility.  Every      *)
(* handler of the controller is one action.  null is 0: entity ids and     *)
(* timer ids start at 1.                                                   *)
(*                                                                         *)
(* Time is kept relative to the present: a timer holds the time left until *)
(* it is due, and sinceShown is Date.now() - this.imageShowTime.  The      *)
(* browser's timer list is kept in the order of the due times, so that the *)
(* order survives for timers that are overdue.  The clock advances from    *)
(* one due time to the next; a timer may run late by any number of these   *)
(* steps.                                                                  *)
(*                                                                         *)
(* Spec is the controller with a pointer and visibility changes, on a      *)
(* catalog of one image (no handler but showNextImage reads the catalog).  *)
(* SpecCalls is the controller with pause() and resume() called directly,  *)
(* as a script holding the Slideshow object can, instead of by a pointer.  *)
(* SpecRotation is the controller on every catalog of up to MaxCatalog     *)
(* images in a background tab: timers and loads run, no frame is rendered  *)
(* and no pointer event arrives.                                           *)
(***************************************************************************)
EXTENDS Integers, Sequences, FiniteSets, TLC

\* ---------------------------------------------------------------- bounds
MaxEntities == 3       \* rotation ticks (new Image() of showNextImage) per run of Spec
MaxCatalog == 3        \* SpecRotation: catalogs of 1..MaxCatalog image paths
MaxTicks == 6          \* SpecRotation: rotation ticks per run
RandomDen == 3         \* Math.random() yields 0/RandomDen .. (RandomDen-1)/RandomDen

\* ------------------------------------------------ options, lines 370-376
TransitionDuration == 250
DisplayDuration == 1500
Full == TransitionDuration + DisplayDuration
MarginX == 20
MarginY == 20

\* the window sizes the browser reports (innerWidth, innerHeight), in px
Viewports == {<<1024, 768>>, <<360, 640>>}

\* positions are kept as integers: one px is PointUnit units
PointUnit == 100 * RandomDen
NoPoint == [x |-> -1, y |-> -1]

\* this.imageShowTime is null
NoShowTime == -1

\* the age of imageShowTime is counted up to here: resume() clamps the remaining
\* time at zero, so every age from Full on behaves alike
SinceCap == 2 * Full

VARIABLES
    imagePaths,          \* this.imagePaths, the catalog <<1, .., n>>
    shuffledImages,      \* this.shuffledImages
    currentIndex,        \* this.currentIndex
    preload,             \* preloadImages: per catalog entry "pending" | "loaded" | "failed"
    img,                 \* the Image objects made by showNextImage: [src, status]
    dom,                 \* ids of the .slideshow-image children of the container
    active,              \* ids of the images whose classList has 'active'
    rafQueue,            \* requestAnimationFrame callbacks waiting, in registration order
    currentImage,        \* this.currentImage (0 = null)
    isPaused,            \* this.isPaused
    nextImageTimeout,    \* this.nextImageTimeout (0 = null)
    timers,              \* the pending timers [id, kind, left, delay, target], by due time
    sinceShown,          \* Date.now() - this.imageShowTime, up to SinceCap (NoShowTime = null)
    fullDisplayDuration, \* this.fullDisplayDuration (0 = null)
    hover,               \* the image the pointer is over (0 = none)
    viewportWidth,       \* this.viewportWidth, in px
    viewportHeight,      \* this.viewportHeight, in px
    centerpoint,         \* style.left / style.top of the image placed last, in PointUnit-ths of a px
    lastOp               \* history: the handler that ran last

vars == <<imagePaths, shuffledImages, currentIndex, preload, img, dom, active,
          rafQueue, currentImage, isPaused, nextImageTimeout, timers,
          sinceShown, fullDisplayDuration, hover, viewportWidth, viewportHeight,
          centerpoint, lastOp>>

\* the window size and the placement, which only resize and onload assign
view == <<viewportWidth, viewportHeight, centerpoint>>

\* ------------------------------------------------------------ helpers
Max(a, b) == IF a >= b THEN a ELSE b

Min(a, b) == IF a <= b THEN a ELSE b

Range(s) == {s[i] : i \in 1..Len(s)}

\* the rotation timers among the pending timers (the others remove a faded image)
Rotation(ts) == {i \in 1..Len(ts) : ts[i].kind # "removal"}

\* the controller's timer fields and the browser's timer list as one value
Ctl == [isPaused |-> isPaused, nextImageTimeout |-> nextImageTimeout, timers |-> timers]

\* [...imagePaths].sort(() => Math.random() - 0.5): some permutation
Shuffles(paths) ==
    {s \in [1..Len(paths) -> Range(paths)] : Range(s) = Range(paths)}

\* clearTimeout(id): a no-op for null and for an id that is not pending
ClearTimeout(ts, id) == SelectSeq(ts, LAMBDA t : t.kind = "removal" \/ t.id # id)

\* the handle setTimeout returns: an id no pending timer and no kept handle has
FreshId(c) ==
    LET used == {c.timers[i].id : i \in Rotation(c.timers)} \cup {c.nextImageTimeout}
    IN CHOOSE i \in 1..(Len(c.timers) + 2) :
        i \notin used /\ \A j \in 1..(i - 1) : j \in used

\* setTimeout: the timer enters the list behind every timer due no later than it
SetTimeout(ts, tm) ==
    LET k == Cardinality({i \in 1..Len(ts) : ts[i].left <= tm.left})
    IN SubSeq(ts, 1, k) \o <<tm>> \o SubSeq(ts, k + 1, Len(ts))

RotationTimer(c, kind, delay) ==
    [id |-> FreshId(c), kind |-> kind, left |-> delay, delay |-> delay, target |-> 0]

Op(name, arg) == [op |-> name, arg |-> arg, paused |-> isPaused]

\* ------------------------------------------------------ pause / resume
\* pause() that cancels every pending timer, the fade-out removals included
pause_ClearsAll(c) ==
    IF c.isPaused THEN c
    ELSE [isPaused |-> TRUE, nextImageTimeout |-> 0, timers |-> <<>>]

\* pause(), lines 71-81
pause(c) ==
    IF c.isPaused THEN c
    ELSE [isPaused |-> TRUE,
          nextImageTimeout |-> 0,
          timers |-> ClearTimeout(c.timers, c.nextImageTimeout)]

\* resume() without the clamp of the remaining time at zero
ResumeDelay_NoClamp(since, fullDur) ==
    IF since # NoShowTime /\ fullDur # 0
    THEN fullDur - since
    ELSE TransitionDuration + DisplayDuration

\* resume() that always waits for the nominal duration
ResumeDelay_Nominal(since, fullDur) == TransitionDuration + DisplayDuration

\* resume(), lines 91-97: the delay of the timer resume() sets
ResumeDelay(since, fullDur) ==
    IF since # NoShowTime /\ fullDur # 0
    THEN Max(0, fullDur - since)
    ELSE TransitionDuration + DisplayDuration

\* resume() without its early return when the slideshow is not paused
resume_NoGuard(c, cur, since, fullDur) ==
    IF cur # 0
    THEN LET tm == RotationTimer(c, "resume", ResumeDelay(since, fullDur))
         IN [isPaused |-> FALSE,
             nextImageTimeout |-> tm.id,
             timers |-> SetTimeout(c.timers, tm)]
    ELSE [c EXCEPT !.isPaused = FALSE]

\* resume(), lines 86-108
resume(c, cur, since, fullDur) ==
    IF ~c.isPaused THEN c
    ELSE IF cur # 0
         THEN LET tm == RotationTimer(c, "resume", ResumeDelay(since, fullDur))
              IN [isPaused |-> FALSE,
                  nextImageTimeout |-> tm.id,
                  timers |-> SetTimeout(c.timers, tm)]
         ELSE [c EXCEPT !.isPaused = FALSE]

\* lines 132-137 and 47-53: resume when paused and the current image is not hovered
ResumeUnlessHovered(c, cur, hov, since, fullDur) ==
    IF c.isPaused /\ cur # 0 /\ hov # cur
    THEN resume(c, cur, since, fullDur)
    ELSE c

\* img.onload, lines 259-271: the rotation timer after a successful load
OnLoadSchedule(c) ==
    LET cleared == [c EXCEPT !.timers = ClearTimeout(c.timers, c.nextImageTimeout)]
        tm == RotationTimer(cleared, "onload", TransitionDuration + DisplayDuration)
    IN IF ~c.isPaused
       THEN [cleared EXCEPT !.nextImageTimeout = tm.id,
                            !.timers = SetTimeout(cleared.timers, tm)]
       ELSE cleared

\* img.onerror that waits for the display duration alone
OnErrorSchedule_DisplayOnly(c) ==
    LET cleared == [c EXCEPT !.timers = ClearTimeout(c.timers, c.nextImageTimeout)]
        tm == RotationTimer(cleared, "onerror", DisplayDuration)
    IN [cleared EXCEPT !.nextImageTimeout = tm.id,
                       !.timers = SetTimeout(cleared.timers, tm)]

\* img.onerror, lines 279-285: the rotation timer after a failed load
OnErrorSchedule(c) ==
    LET cleared == [c EXCEPT !.timers = ClearTimeout(c.timers, c.nextImageTimeout)]
        tm == RotationTimer(cleared, "onerror", TransitionDuration + DisplayDuration)
    IN [cleared EXCEPT !.nextImageTimeout = tm.id,
                       !.timers = SetTimeout(cleared.timers, tm)]

\* the callbacks of the three rotation timers (lines 101-106, 265-270, 282-285):
\* all null the handle; only the onerror one calls showNextImage() unguarded
CallbackShows(kind, paused) == kind = "onerror" \/ ~paused

\* cleanupStuckImages() with the test of line 121 inverted
CleanupDom_Inverted(d, cur) == {e \in d : e # cur}

\* cleanupStuckImages(), lines 117-124: the children left in the container
CleanupDom(d, cur) == {e \in d : e = cur}

\* cleanupStuckImages(), lines 127-129: the images carrying 'active' afterwards
CleanupActive(a, cur) == IF cur # 0 THEN a \cup {cur} ELSE a

SetCtl(c) ==
    /\ isPaused' = c.isPaused
    /\ nextImageTimeout' = c.nextImageTimeout
    /\ timers' = c.timers

\* ------------------------------------------------------ showNextImage
\* showNextImage() that reshuffles on every tick
ShowNextImage_AlwaysReshuffle ==
    LET imagePath == shuffledImages[currentIndex + 1]
        next == (currentIndex + 1) % Len(shuffledImages)
    IN /\ currentIndex' = next
       /\ shuffledImages' \in Shuffles(imagePaths)
       /\ img' = Append(img, [src |-> imagePath, status |-> "loading"])

\* showNextImage(), lines 179-192: take the path at the cursor, advance, reshuffle
\* on wrap, make the Image and start its load
ShowNextImage ==
    LET imagePath == shuffledImages[currentIndex + 1]
        next == (currentIndex + 1) % Len(shuffledImages)
    IN /\ currentIndex' = next
       /\ IF next = 0
          THEN shuffledImages' \in Shuffles(imagePaths)
          ELSE UNCHANGED shuffledImages
       /\ img' = Append(img, [src |-> imagePath, status |-> "loading"])

NoShow == UNCHANGED <<currentIndex, shuffledImages, img>>

\* ---------------------------------------------------------- placement
\* the draws Math.random() can return, as numerators over RandomDen: [0, 1)
Randoms == 0..(RandomDen - 1)

\* getRandomCenterpoint without the offset by minX and minY
getRandomCenterpoint_NoOffset(w, h, rx, ry) ==
    LET marginX == w * MarginX
        marginY == h * MarginY
    IN [x |-> rx * ((100 * w - marginX) - marginX),
        y |-> ry * ((100 * h - marginY) - marginY)]

\* getRandomCenterpoint(), lines 318-336, for a window of w x h px and the draws
\* rx/RandomDen and ry/RandomDen; margins and bounds in 1/100 px, the result in
\* 1/PointUnit px
getRandomCenterpoint(w, h, rx, ry) ==
    LET marginX == w * MarginX
        marginY == h * MarginY
        minX == marginX
        maxX == 100 * w - marginX
        minY == marginY
        maxY == 100 * h - marginY
    IN [x |-> rx * (maxX - minX) + RandomDen * minX,
        y |-> ry * (maxY - minY) + RandomDen * minY]

\* ------------------------------------------------------------- Init
\* constructor, lines 18-26, and init(), line 145, up to the start of the preloads
InitWith(paths, window) ==
    /\ imagePaths = paths
    /\ shuffledImages \in Shuffles(imagePaths)
    /\ currentIndex = 0
    /\ preload = [i \in 1..Len(imagePaths) |-> "pending"]
    /\ img = <<>>
    /\ dom = {}
    /\ active = {}
    /\ rafQueue = <<>>
    /\ currentImage = 0
    /\ isPaused = FALSE
    /\ nextImageTimeout = 0
    /\ timers = <<>>
    /\ sinceShown = NoShowTime
    /\ fullDisplayDuration = 0
    /\ hover = 0
    /\ viewportWidth = window[1]
    /\ viewportHeight = window[2]
    /\ centerpoint = NoPoint
    /\ lastOp = [op |-> "constructor", arg |-> 0, paused |-> FALSE]

Init == InitWith(<<1>>, <<1024, 768>>)

InitRotation == \E n \in 1..MaxCatalog : InitWith([i \in 1..n |-> i], <<1024, 768>>)

InitPlacement == \E window \in Viewports : InitWith(<<1>>, window)

\* ------------------------------------------------------------ actions
\* preloadImages(), lines 156-167, and the then() of init(), lines 148-150:
\* Promise.all fulfils when every preload has loaded, and rejects (so that the
\* then() callback never runs) when one fails
PreloadSettles(i, ok) ==
    /\ preload[i] = "pending"
    /\ preload' = [preload EXCEPT ![i] = IF ok THEN "loaded" ELSE "failed"]
    /\ IF \A j \in DOMAIN preload : preload'[j] = "loaded"
       THEN ShowNextImage
       ELSE NoShow
    /\ lastOp' = Op("preload", i)
    /\ UNCHANGED <<view, imagePaths, dom, active, rafQueue, currentImage, isPaused,
                   nextImageTimeout, timers, sinceShown, fullDisplayDuration, hover>>

\* the timer the browser runs next: the first of the list, once it is due
Due(ts) == ts # <<>> /\ ts[1].left = 0

\* a rotation timer expires: lines 101-106, 265-270 or 282-285
TimerFires(cap) ==
    /\ Due(timers)
    /\ timers[1].kind # "removal"
    /\ timers' = Tail(timers)
    /\ nextImageTimeout' = 0
    /\ IF CallbackShows(timers[1].kind, isPaused)
       THEN Len(img) < cap /\ ShowNextImage
       ELSE NoShow
    /\ lastOp' = Op("timer", IF CallbackShows(timers[1].kind, isPaused) THEN 1 ELSE 0)
    /\ UNCHANGED <<view, imagePaths, preload, dom, active, rafQueue, currentImage,
                   isPaused, sinceShown, fullDisplayDuration, hover>>

\* img.onload, lines 195-272, with Math.random() returning rx/RandomDen and
\* then ry/RandomDen
ImgLoadAt(e, rx, ry) ==
    /\ e \in 1..Len(img)
    /\ img[e].status = "loading"
    /\ centerpoint' = getRandomCenterpoint(viewportWidth, viewportHeight, rx, ry)
    /\ img' = [img EXCEPT ![e].status = "loaded"]
    /\ dom' = dom \cup {e}
    /\ LET previousImage == currentImage
           rm == [id |-> 0, kind |-> "removal", left |-> TransitionDuration,
                  delay |-> TransitionDuration, target |-> previousImage]
       IN IF previousImage # 0
          THEN /\ active' = active \ {previousImage}
               /\ SetCtl(OnLoadSchedule([Ctl EXCEPT !.timers = SetTimeout(@, rm)]))
          ELSE /\ UNCHANGED active
               /\ SetCtl(OnLoadSchedule(Ctl))
    /\ rafQueue' = Append(rafQueue, e)
    /\ fullDisplayDuration' = TransitionDuration + DisplayDuration
    /\ sinceShown' = 0
    /\ lastOp' = Op("onload", e)
    /\ UNCHANGED <<viewportWidth, viewportHeight, imagePaths, shuffledImages, currentIndex,
                   preload, currentImage, hover>>

\* img.onload in the specifications that do not follow the placement: both
\* draws are 0, and no handler reads the position of an image
ImgLoad(e) == ImgLoadAt(e, 0, 0)

\* the resize listener, lines 32-36
Resize(window) ==
    /\ <<viewportWidth, viewportHeight>> # window
    /\ viewportWidth' = window[1]
    /\ viewportHeight' = window[2]
    /\ lastOp' = Op("resize", 0)
    /\ UNCHANGED <<centerpoint, imagePaths, shuffledImages, currentIndex, preload, img, dom,
                   active, rafQueue, currentImage, isPaused, nextImageTimeout, timers,
                   sinceShown, fullDisplayDuration, hover>>

\* img.onerror, lines 275-286
ImgError(e) ==
    /\ e \in 1..Len(img)
    /\ img[e].status = "loading"
    /\ img' = [img EXCEPT ![e].status = "failed"]
    /\ SetCtl(OnErrorSchedule(Ctl))
    /\ lastOp' = Op("onerror", e)
    /\ UNCHANGED <<view, imagePaths, shuffledImages, currentIndex, preload, dom, active,
                   rafQueue, currentImage, sinceShown, fullDisplayDuration, hover>>

\* the requestAnimationFrame callbacks of lines 227-237, run in registration order
\* in the next frame the page renders
AnimationFrame ==
    /\ rafQueue # <<>>
    /\ active' = active \cup Range(rafQueue)
    /\ currentImage' = rafQueue[Len(rafQueue)]
    /\ rafQueue' = <<>>
    /\ lastOp' = Op("frame", Len(rafQueue))
    /\ UNCHANGED <<view, imagePaths, shuffledImages, currentIndex, preload, img, dom,
                   isPaused, nextImageTimeout, timers, sinceShown,
                   fullDisplayDuration, hover>>

\* the fade-out removal timer of lines 216-221
RemovalFires ==
    /\ Due(timers)
    /\ timers[1].kind = "removal"
    /\ timers' = Tail(timers)
    /\ dom' = dom \ {timers[1].target}
    /\ hover' = IF hover = timers[1].target THEN 0 ELSE hover
    /\ lastOp' = Op("removal", timers[1].target)
    /\ UNCHANGED <<view, imagePaths, shuffledImages, currentIndex, preload, img, active,
                   rafQueue, currentImage, isPaused, nextImageTimeout,
                   sinceShown, fullDisplayDuration>>

\* mouseenter on an image of the container, lines 241-244
MouseEnter(e) ==
    /\ e \in dom
    /\ hover = 0
    /\ hover' = e
    /\ SetCtl(pause(Ctl))
    /\ lastOp' = Op("mouseenter", 0)
    /\ UNCHANGED <<view, imagePaths, shuffledImages, currentIndex, preload, img, dom, active,
                   rafQueue, currentImage, sinceShown, fullDisplayDuration>>

\* mouseleave on the image the pointer was over, lines 246-249
MouseLeave ==
    /\ hover # 0
    /\ hover' = 0
    /\ SetCtl(resume(Ctl, currentImage, sinceShown, fullDisplayDuration))
    /\ lastOp' = Op("mouseleave", IF lastOp.op \in {"pause", "mouseenter"} THEN 1 ELSE 0)
    /\ UNCHANGED <<view, imagePaths, shuffledImages, currentIndex, preload, img, dom, active,
                   rafQueue, currentImage, sinceShown, fullDisplayDuration>>

\* pause() called directly, lines 71-81
Pause ==
    /\ SetCtl(pause(Ctl))
    /\ lastOp' = Op("pause", 0)
    /\ UNCHANGED <<view, imagePaths, shuffledImages, currentIndex, preload, img, dom, active,
                   rafQueue, currentImage, sinceShown, fullDisplayDuration, hover>>

\* resume() called directly, lines 86-108
Resume ==
    /\ SetCtl(resume(Ctl, currentImage, sinceShown, fullDisplayDuration))
    /\ lastOp' = Op("resume", IF lastOp.op \in {"pause", "mouseenter"} THEN 1 ELSE 0)
    /\ UNCHANGED <<view, imagePaths, shuffledImages, currentIndex, preload, img, dom, active,
                   rafQueue, currentImage, sinceShown, fullDisplayDuration, hover>>

\* visibilitychange with the page visible again, lines 39-55, with
\* cleanupStuckImages(), lines 113-138 (with the page hidden the handler does nothing)
VisibilityRestore ==
    /\ dom' = CleanupDom(dom, currentImage)
    /\ active' = CleanupActive(active, currentImage)
    /\ hover' = IF hover \in dom' THEN hover ELSE 0
    /\ LET c1 == ResumeUnlessHovered(Ctl, currentImage, hover', sinceShown,
                                     fullDisplayDuration)
           c2 == ResumeUnlessHovered(c1, currentImage, hover', sinceShown,
                                     fullDisplayDuration)
       IN SetCtl(c2)
    /\ lastOp' = Op("visible", Cardinality(dom \ {currentImage}))
    /\ UNCHANGED <<view, imagePaths, shuffledImages, currentIndex, preload, img, rafQueue,
                   currentImage, sinceShown, fullDisplayDuration>>

\* time passes: up to the next due time of a pending timer, or for the length of
\* one image's display when none is pending
Tick ==
    LET ahead == {timers[i].left : i \in 1..Len(timers)} \ {0}
        d == IF ahead = {} THEN TransitionDuration + DisplayDuration
             ELSE CHOOSE m \in ahead : \A x \in ahead : m <= x
    IN /\ timers' = [i \in 1..Len(timers) |-> [timers[i] EXCEPT !.left = Max(0, @ - d)]]
       /\ sinceShown' = IF sinceShown = NoShowTime THEN NoShowTime
                        ELSE Min(SinceCap, sinceShown + d)
       /\ <<timers', sinceShown'>> # <<timers, sinceShown>>
       /\ lastOp' = Op("tick", 0)
       /\ UNCHANGED <<view, imagePaths, shuffledImages, currentIndex, preload, img, dom,
                      active, rafQueue, currentImage, isPaused, nextImageTimeout,
                      fullDisplayDuration, hover>>

\* what the browser does without a pointer
NextBrowser ==
    \/ \E i \in DOMAIN preload, ok \in BOOLEAN : PreloadSettles(i, ok)
    \/ TimerFires(MaxEntities)
    \/ \E e \in 1..Len(img) : ImgLoad(e)
    \/ \E e \in 1..Len(img) : ImgError(e)
    \/ AnimationFrame
    \/ RemovalFires
    \/ VisibilityRestore
    \/ Tick

Next ==
    \/ NextBrowser
    \/ \E e \in dom : MouseEnter(e)
    \/ MouseLeave

Spec == Init /\ [][Next]_vars

NextCalls ==
    \/ NextBrowser
    \/ Pause
    \/ Resume

SpecCalls == Init /\ [][NextCalls]_vars

NextRotation ==
    \/ \E i \in DOMAIN preload, ok \in BOOLEAN : PreloadSettles(i, ok)
    \/ TimerFires(MaxTicks)
    \/ \E e \in 1..Len(img) : ImgLoad(e)
    \/ \E e \in 1..Len(img) : ImgError(e)
    \/ Tick

SpecRotation == InitRotation /\ [][NextRotation]_vars

\* the visible tab with a pointer, where no recovery pass runs, and where every
\* pending timer, load and animation frame is eventually served
NextFair ==
    \/ \E i \in DOMAIN preload, ok \in BOOLEAN : PreloadSettles(i, ok)
    \/ TimerFires(MaxEntities)
    \/ \E e \in 1..Len(img) : ImgLoad(e)
    \/ \E e \in 1..Len(img) : ImgError(e)
    \/ AnimationFrame
    \/ RemovalFires
    \/ Tick
    \/ \E e \in dom : MouseEnter(e)
    \/ MouseLeave

SpecFair ==
    /\ Init
    /\ [][NextFair]_vars
    /\ WF_vars(Tick)
    /\ WF_vars(TimerFires(MaxEntities))
    /\ WF_vars(RemovalFires)
    /\ WF_vars(AnimationFrame)
    /\ WF_vars(\E e \in 1..Len(img) : ImgLoad(e) \/ ImgError(e))

\* the rotation in a window that is resized, every draw of Math.random() followed
NextPlacement ==
    \/ \E i \in DOMAIN preload, ok \in BOOLEAN : PreloadSettles(i, ok)
    \/ TimerFires(MaxEntities)
    \/ \E e \in 1..Len(img), rx, ry \in Randoms : ImgLoadAt(e, rx, ry)
    \/ \E e \in 1..Len(img) : ImgError(e)
    \/ AnimationFrame
    \/ RemovalFires
    \/ \E window \in Viewports : Resize(window)
    \/ Tick

SpecPlacement == InitPlacement /\ [][NextPlacement]_vars

\* ------------------------------------------------------------- claims
\* C1: in every reachable state at most one rotation timer (a setTimeout whose
\* callback calls showNextImage) is pending
C1_AtMostOneRotationTimer == Cardinality(Rotation(timers)) <= 1

\* C2: at every instant at most one display entity of the container carries the
\* 'active' marker
C2_AtMostOneActive == Cardinality(active \cap dom) <= 1

\* C3: once every preload attempt has settled, by success or by failure, init()
\* has called showNextImage() and the first rotation tick has run
C3_SettledPreloadsStartRotation ==
    (\A i \in DOMAIN preload : preload[i] # "pending") => Len(img) >= 1

\* C4: in every reachable state in which isPaused is true no rotation timer is pending
C4_NoRotationTimerWhilePaused == isPaused => Rotation(timers) = {}

\* the rotation timer this.nextImageTimeout is the handle of, if it is pending
Tracked == {i \in Rotation(timers) : timers[i].id = nextImageTimeout}

\* the fields of the controller and the DOM it manages
Controller ==
    <<isPaused, nextImageTimeout, timers, sinceShown, fullDisplayDuration, currentIndex,
      shuffledImages, currentImage, img, dom, active, rafQueue>>

\* C5: a pause() while paused and a resume() while not paused change nothing of the
\* controller: not the pause flag, the timers, shown_at, the cursor, the current
\* entity or the DOM
C5_PauseResumeIdempotent ==
    [][ (\/ (Pause \/ \E e \in dom : MouseEnter(e)) /\ isPaused
         \/ (Resume \/ MouseLeave) /\ ~isPaused)
        => UNCHANGED Controller ]_vars

C5_Witness == lastOp.op = "resume" /\ ~lastOp.paused /\ currentImage # 0

\* the handler that ran last called resume() while the slideshow was paused
ResumedLast ==
    \/ lastOp.op \in {"mouseleave", "resume"} /\ lastOp.paused
    \/ lastOp.op = "visible" /\ lastOp.paused /\ currentImage # 0 /\ hover # currentImage

\* the handler that ran last is the resume() of a pause() directly followed by resume()
PauseResumeLast == lastOp.op \in {"mouseleave", "resume"} /\ lastOp.arg = 1

\* C6, as claimed: with rotation started, pause() directly followed by resume() leaves
\* a rotation timer pending whose delay d satisfies 0 < d <= full_duration
C6_Original ==
    (PauseResumeLast /\ Len(img) >= 1)
    => \E i \in Tracked : timers[i].delay > 0 /\ timers[i].delay <= Full

\* C6, amended: with a current entity, pause() directly followed by resume() leaves
\* a rotation timer pending whose delay d satisfies 0 <= d <= full_duration
C6_ResumeDelayInRange ==
    (PauseResumeLast /\ currentImage # 0)
    => \E i \in Tracked :
          /\ timers[i].kind = "resume"
          /\ timers[i].delay >= 0
          /\ timers[i].delay <= Full

C6_Witness ==
    PauseResumeLast /\ currentImage # 0 /\ \E i \in Tracked : timers[i].delay = 0

\* C7: the cursor stays in 0..n-1, every block of n consecutive rotation ticks takes
\* every catalog entry exactly once (and a block under way takes none twice), and
\* the shuffle changes only in a tick that wraps the cursor to 0
C7_FullPassVisitsEachOnce ==
    /\ [](LET n == Len(imagePaths)
          IN /\ currentIndex \in 0..(n - 1)
             /\ \A i, j \in 1..Len(img) :
                   (i # j /\ (i - 1) \div n = (j - 1) \div n) => img[i].src # img[j].src
             /\ \A k \in 1..(Len(img) \div n) :
                   {img[(k - 1) * n + j].src : j \in 1..n} = Range(imagePaths))
    /\ [][shuffledImages' # shuffledImages
            => currentIndex' = 0 /\ Len(img') = Len(img) + 1]_vars

C7_Witness ==
    /\ Len(imagePaths) = 3
    /\ Len(img) = 6
    /\ \E j \in 1..3 : img[j].src # img[3 + j].src

\* C8: after the recovery pass the container holds no entity but the tracked current
\* one, the tracked current one (if any) is marked active, and of k stray entities
\* plus the current one in the DOM exactly the current one remains
C8_CleanupLeavesCurrentOnly ==
    [][ VisibilityRestore
        => /\ dom' \subseteq {currentImage'}
           /\ currentImage' # 0 => currentImage' \in active'
           /\ currentImage \in dom => dom' = {currentImage} ]_vars

C8_Witness == lastOp.op = "visible" /\ lastOp.arg >= 2 /\ dom = {currentImage}

\* C9: a failed load inserts, removes and deactivates no entity, leaves the tracked
\* current entity as it is, and schedules a rotation timer of delay
\* transitionDuration + displayDuration whose callback starts the next tick
C9_LoadFailureKeepsCadence ==
    [][ (\E e \in 1..Len(img) : ImgError(e))
        => /\ dom' = dom
           /\ active' = active
           /\ currentImage' = currentImage
           /\ rafQueue' = rafQueue
           /\ nextImageTimeout' # 0
           /\ \E t \in Range(timers') :
                 /\ t.kind # "removal"
                 /\ t.id = nextImageTimeout'
                 /\ t.delay = Full
                 /\ t.left = Full
                 /\ \A p \in BOOLEAN : CallbackShows(t.kind, p) ]_vars

C9_Witness ==
    /\ lastOp.op = "onerror"
    /\ currentImage # 0
    /\ \E i \in Tracked : timers[i].kind = "onerror" /\ timers[i].left = Full

\* C10: resume() called while paused, with a current entity, schedules a rotation
\* timer of delay max(0, full_duration - (now - shown_at)), or of the full nominal
\* duration when no shown_at is recorded, and this timer is the one kept in
\* nextImageTimeout
C10_ResumeReschedulesRemaining ==
    (ResumedLast /\ currentImage # 0)
    => /\ ~isPaused
       /\ \E i \in Tracked :
             /\ timers[i].kind = "resume"
             /\ timers[i].left = timers[i].delay
             /\ timers[i].delay =
                   IF sinceShown = NoShowTime THEN Full
                   ELSE IF Full - sinceShown > 0 THEN Full - sinceShown ELSE 0

C10_Witness ==
    /\ ResumedLast
    /\ currentImage # 0
    /\ \E i \in Tracked : timers[i].delay > 0 /\ timers[i].delay < Full

\* the pending fade-out removal timers
Removals(ts) == SelectSeq(ts, LAMBDA t : t.kind = "removal")

\* C11: pause() changes only the pause flag and the rotation timer kept in
\* nextImageTimeout: shown_at, full_duration, the cursor, the permutation, the
\* tracked current entity, the entities of the DOM, their markers and the pending
\* activations and fade-out removals stay as they are, and no timer is added
C11_PauseFrame ==
    [][ (Pause \/ \E e \in dom : MouseEnter(e))
        => /\ UNCHANGED <<sinceShown, fullDisplayDuration, currentIndex, shuffledImages,
                          currentImage, dom, active, img, rafQueue>>
           /\ Removals(timers') = Removals(timers)
           /\ timers' = ClearTimeout(timers, IF isPaused THEN 0 ELSE nextImageTimeout)
           /\ isPaused' ]_vars

C11_Witness ==
    /\ lastOp.op = "mouseenter"
    /\ ~lastOp.paused
    /\ currentImage # 0
    /\ sinceShown > 0
    /\ Removals(timers) # <<>>
    /\ Rotation(timers) = {}

\* C12: every image the rotation places has its centerpoint inside the margins
\* of the window as it is at the placement, resizes included:
\* marginX% * W <= x <= W - marginX% * W and marginY% * H <= y <= H - marginY% * H
C12_CenterpointWithinMargins ==
    lastOp.op = "onload"
    => /\ MarginX * viewportWidth * PointUnit <= 100 * centerpoint.x
       /\ centerpoint.x <= (viewportWidth * PointUnit) - (MarginX * viewportWidth * RandomDen)
       /\ MarginY * viewportHeight * PointUnit <= 100 * centerpoint.y
       /\ centerpoint.y <= (viewportHeight * PointUnit) - (MarginY * viewportHeight * RandomDen)

C12_Witness ==
    /\ lastOp.op = "onload"
    /\ lastOp.arg > 1
    /\ <<viewportWidth, viewportHeight>> = <<360, 640>>
    /\ centerpoint.x > MarginX * viewportWidth * RandomDen
    /\ centerpoint.y > MarginY * viewportHeight * RandomDen

\* C13: the fade-out removal callback removes the entity captured as previous
\* when the fade-out started, and that entity is never the tracked current one
\* at the time the callback runs, however the removal timer interleaves with
\* the animation frames and the later ticks
C13_RemovalSparesCurrent ==
    [][ RemovalFires
        => /\ dom' = dom \ {timers[1].target}
           /\ timers[1].target # currentImage ]_vars

\* a later entity has taken the place of entity e: e is attached, its own
\* animation frame has run, and another entity is the tracked current one
Replaced(e) == e \in dom /\ currentImage \notin {0, e} /\ e \notin Range(rafQueue)

Stray(e) == Replaced(e) /\ \A i \in 1..Len(timers) : timers[i].kind = "removal" => timers[i].target # e

\* without a recovery pass no step ends that condition: whatever ticks follow,
\* a stray entity stays attached
StrayStaysAttached ==
    [][ \A e \in 1..MaxEntities : Stray(e) => Stray(e)' ]_vars

\* C15: the slideshow is paused only while the pointer is over the tracked
\* current entity, which is then in the DOM
C15_PausedOnlyOverCurrent ==
    isPaused => (hover # 0 /\ hover = currentImage /\ currentImage \in dom)

\* C16: once the first tick has started, a slideshow that is not paused has a
\* rotation timer pending or a load started by showNextImage in flight
C16_NoSilentStall ==
    (Len(img) >= 1 /\ ~isPaused)
    => (Rotation(timers) # {} \/ \E e \in 1..Len(img) : img[e].status = "loading")

\* the handler that ran last called showNextImage()
ShowCalledLast ==
    \/ lastOp.op = "timer" /\ lastOp.arg = 1
    \/ lastOp.op = "preload" /\ Len(img) = 1 /\ img[1].status = "loading"

\* C17: showNextImage() is never called while isPaused is true
C17_NoTickWhilePaused == ShowCalledLast => ~lastOp.paused

\* C18: the tracked current entity, when there is one, is attached to the container
C18_CurrentAttached == currentImage # 0 => currentImage \in dom

\* C19: the container never holds more than two display entities
C19_AtMostTwoInDom == Cardinality(dom) <= 2
====
